---- MODULE Spec2Model ----
(***************************************************************************)
(* A model of api.py: the OpenAI-compatible HTTP adapter in front of the   *)
(* RAG crew.  Two endpoints are modelled: GET /v1/models (list_models) and *)
(* POST /v1/chat/completions (chat_completions).  The pipeline factory     *)
(* create_rag_crew and the crew's kickoff are external calls: each either  *)
(* returns or raises, and kickoff returns any value of Results.            *)
(*                                                                         *)
(* Python values are tagged records: None is PyNone, a str is PyStr(s).    *)
(* A message is a Dict[str, str]: a function whose domain is any subset of *)
(* {"role", "content"}, since the request model does not require either    *)
(* key.                                                                    *)
(***************************************************************************)
EXTENDS Integers, Sequences, FiniteSets, TLC

\* ------------------------------------------------------------------ bounds
\* Longest `messages` list of a request handled by the sequential server.
MaxLen == 3
\* Longest `messages` list of a request handled by the concurrent server.
ConcMaxLen == 1

\* Worker threads of the hosting server's pool.
Workers == {"w1", "w2"}
\* Values of the "role" key, of the "content" key and of `model`.
Roles == {"user", "assistant", "system"}
Contents == {"", "A", "C"}
Models == {"app-rag-model", "gpt-x"}

\* ------------------------------------------------------------ Python values
PyNone == [kind |-> "NoneType"]
PyStr(s) == [kind |-> "str", s |-> s]
PyInt(n) == [kind |-> "int", n |-> n]
CrewOutput(raw) == [kind |-> "CrewOutput", raw |-> raw]

\* bool(v) for the values user_message can hold: None and "" are falsy.
Truthy(v) == v.kind = "str" /\ v.s # ""

Digit(d) == CASE d = 0 -> "0" [] d = 1 -> "1" [] d = 2 -> "2" [] d = 3 -> "3"
              [] d = 4 -> "4" [] d = 5 -> "5" [] d = 6 -> "6" [] d = 7 -> "7"
              [] d = 8 -> "8" [] d = 9 -> "9"

RECURSIVE Decimal(_)
Decimal(n) == IF n < 10 THEN Digit(n) ELSE Decimal(n \div 10) \o Digit(n % 10)

\* str(v): a CrewOutput prints its raw text, None prints "None", an int its
\* decimal digits.
Str(v) == CASE v.kind = "str" -> v.s
            [] v.kind = "CrewOutput" -> v.raw
            [] v.kind = "NoneType" -> "None"
            [] v.kind = "int" -> IF v.n < 0 THEN "-" \o Decimal(-v.n) ELSE Decimal(v.n)

\* What kickoff may return.
Results == {CrewOutput("answer"), CrewOutput(""), PyInt(42)}

\* --------------------------------------------------------------- requests
EmptyDict == [k \in {} |-> ""]

MessagesOver(R, C) ==
    {EmptyDict} \cup {[role |-> r] : r \in R} \cup {[content |-> c] : c \in C}
        \cup [role : R, content : C]

BoundedSeq(S, n) == UNION {[1..k -> S] : k \in 0..n}

\* ChatRequest: model: str, messages: List[Dict[str, str]].
ChatRequest(M, n) == [model : Models, messages : BoundedSeq(M, n)]

Requests == ChatRequest(MessagesOver(Roles, Contents), MaxLen)
ConcRequests == ChatRequest([role : Roles, content : {"A", "C"}], ConcMaxLen)

\* ------------------------------------------------------- fixed responses
\* list_models' return value.
ModelListing ==
    [object |-> "list",
     data |-> <<[id |-> "app-rag-model",
                 object |-> "model",
                 created |-> 1677652288,
                 owned_by |-> "app-rag-model",
                 permission |-> <<>>,
                 root |-> "app-rag-model",
                 parent |-> PyNone,
                 max_tokens |-> 131072,
                 context_length |-> 131072]>>]

\* The body returned when no query was extracted.
ErrorBody == [error |-> "No user message found"]

\* Envelope with the model field taken from the listing instead of the request.
EnvelopeListedModel(model, content) ==
    [id |-> "chatcmpl-123",
     object |-> "chat.completion",
     created |-> 1677652288,
     model |-> "app-rag-model",
     choices |-> <<[index |-> 0,
                    message |-> [role |-> "assistant", content |-> content],
                    finish_reason |-> "stop"]>>,
     usage |-> [prompt_tokens |-> 0, completion_tokens |-> 0, total_tokens |-> 0]]

\* Envelope that counts the reply as one completion token.
EnvelopeCountedTokens(model, content) ==
    [id |-> "chatcmpl-123",
     object |-> "chat.completion",
     created |-> 1677652288,
     model |-> model,
     choices |-> <<[index |-> 0,
                    message |-> [role |-> "assistant", content |-> content],
                    finish_reason |-> "stop"]>>,
     usage |-> [prompt_tokens |-> 0, completion_tokens |-> 1, total_tokens |-> 1]]

\* The chat-completion envelope built from the request's model and the text
\* of the pipeline's result.
Envelope(model, content) ==
    [id |-> "chatcmpl-123",
     object |-> "chat.completion",
     created |-> 1677652288,
     model |-> model,
     choices |-> <<[index |-> 0,
                    message |-> [role |-> "assistant", content |-> content],
                    finish_reason |-> "stop"]>>,
     usage |-> [prompt_tokens |-> 0, completion_tokens |-> 0, total_tokens |-> 0]]

\* ------------------------------------------------------- the reverse scan
\* next((msg["content"] for msg in reversed(messages) if msg["role"] == "user"),
\* None), from index i downwards.  outcome is "found" (value is the content),
\* "default" (the generator was exhausted, value is None) or "KeyError" (key
\* is the missing key); inspected is the set of indices whose entry was read.
RECURSIVE ScanFrom(_, _)
ScanFrom(msgs, i) ==
    IF i = 0
    THEN [outcome |-> "default", value |-> PyNone, key |-> "", inspected |-> {}]
    ELSE IF "role" \notin DOMAIN msgs[i]
    THEN [outcome |-> "KeyError", value |-> PyNone, key |-> "role", inspected |-> {i}]
    ELSE IF msgs[i]["role"] = "user"
    THEN IF "content" \in DOMAIN msgs[i]
         THEN [outcome |-> "found", value |-> PyStr(msgs[i]["content"]),
               key |-> "", inspected |-> {i}]
         ELSE [outcome |-> "KeyError", value |-> PyNone, key |-> "content",
               inspected |-> {i}]
    ELSE LET rest == ScanFrom(msgs, i - 1)
         IN  [rest EXCEPT !.inspected = @ \cup {i}]

\* The scan written as [m["content"] for m in messages if m["role"] == "user"][-1]:
\* every entry is read before the last match is taken.
NextUserMessageEager(msgs) ==
    LET all == 1..Len(msgs)
        users == {i \in all : "role" \in DOMAIN msgs[i] /\ msgs[i]["role"] = "user"}
    IN  IF \E i \in all : "role" \notin DOMAIN msgs[i]
        THEN [outcome |-> "KeyError", value |-> PyNone, key |-> "role", inspected |-> all]
        ELSE IF \E i \in users : "content" \notin DOMAIN msgs[i]
        THEN [outcome |-> "KeyError", value |-> PyNone, key |-> "content", inspected |-> all]
        ELSE IF users = {}
        THEN [outcome |-> "default", value |-> PyNone, key |-> "", inspected |-> all]
        ELSE LET last == CHOOSE i \in users : \A j \in users : j <= i
             IN  [outcome |-> "found", value |-> PyStr(msgs[last]["content"]),
                  key |-> "", inspected |-> all]

NextUserMessage(msgs) == ScanFrom(msgs, Len(msgs))

\* ------------------------------------------------------------------ state
VARIABLES
    pc,                 \* per worker: where its handler stands
    request,            \* per worker: the ChatRequest being handled
    inspected,          \* per worker: indices of messages the scan read
    user_message,       \* per worker: the local user_message
    printed,            \* per worker: the line written to standard output
    crew_args,          \* per worker: arguments of this request's create_rag_crew calls
    kickoffs,           \* per worker: number of this request's kickoff calls
    execution_result,   \* per worker: the local execution_result
    response,           \* per worker: the handler's return value
    exc,                \* per worker: the exception that left the handler of its
                        \* current or last request
    status,             \* per worker: HTTP status of the reply to its last request
    listing,            \* the return value of a list_models call being answered
    serverUp            \* the server process is running

locals == <<request, inspected, user_message, printed, crew_args, kickoffs,
            execution_result, response, exc>>
vars == <<pc, locals, status, listing, serverUp>>

Pool == DOMAIN pc

NoExc == ""
KeyError(k) == "KeyError: " \o k
FactoryError == "create_rag_crew raised"
KickoffError == "kickoff raised"

InitPool(P) ==
    /\ pc = [w \in P |-> "idle"]
    /\ request = [w \in P |-> PyNone]
    /\ inspected = [w \in P |-> {}]
    /\ user_message = [w \in P |-> PyNone]
    /\ printed = [w \in P |-> PyNone]
    /\ crew_args = [w \in P |-> <<>>]
    /\ kickoffs = [w \in P |-> 0]
    /\ execution_result = [w \in P |-> PyNone]
    /\ response = [w \in P |-> PyNone]
    /\ exc = [w \in P |-> NoExc]
    /\ status = [w \in P |-> 0]
    /\ listing = PyNone
    /\ serverUp = TRUE

\* One worker handles one request to completion.
Init == InitPool({"w1"})
\* The thread pool handles requests concurrently.
ConcInit == InitPool(Workers)

\* ------------------------------------------------------- GET /v1/models
\* list_models listing one model more while a chat request is being handled.
ListModelsDynamic ==
    /\ serverUp
    /\ listing = PyNone
    /\ listing' = IF \E w \in Pool : pc[w] # "idle"
                  THEN [ModelListing EXCEPT !.data = @ \o @]
                  ELSE ModelListing
    /\ UNCHANGED <<pc, locals, status, serverUp>>

ListModels ==
    /\ serverUp
    /\ listing = PyNone
    /\ listing' = ModelListing
    /\ UNCHANGED <<pc, locals, status, serverUp>>

\* The host sends the listing with status 200.
HostSendListing ==
    /\ serverUp
    /\ listing # PyNone
    /\ listing' = PyNone
    /\ UNCHANGED <<pc, locals, status, serverUp>>

\* ---------------------------------------------- POST /v1/chat/completions
\* The host validated the body as a ChatRequest, here any r of R, and calls
\* the handler on a free worker, with fresh locals.
Receive(w, R) ==
    /\ serverUp
    /\ pc[w] = "idle"
    /\ \E r \in R : request' = [request EXCEPT ![w] = r]
    /\ pc' = [pc EXCEPT ![w] = "scan"]
    /\ status' = [status EXCEPT ![w] = 0]
    /\ exc' = [exc EXCEPT ![w] = NoExc]
    /\ UNCHANGED <<inspected, user_message, printed, crew_args, kickoffs,
                   execution_result, response, listing, serverUp>>

\* ExtractQuery with user_message a module-level global: the assignment is seen
\* by every worker.
ExtractQueryGlobal(w) ==
    /\ serverUp
    /\ pc[w] = "scan"
    /\ LET scan == NextUserMessage(request[w].messages)
       IN  /\ inspected' = [inspected EXCEPT ![w] = scan.inspected]
           /\ IF scan.outcome = "KeyError"
              THEN /\ pc' = [pc EXCEPT ![w] = "raised"]
                   /\ exc' = [exc EXCEPT ![w] = KeyError(scan.key)]
                   /\ UNCHANGED <<user_message, response, printed>>
              ELSE /\ user_message' = [v \in Pool |-> scan.value]
                   /\ exc' = exc
                   /\ IF ~Truthy(scan.value)
                      THEN /\ pc' = [pc EXCEPT ![w] = "returned"]
                           /\ response' = [response EXCEPT ![w] = ErrorBody]
                           /\ printed' = printed
                      ELSE /\ pc' = [pc EXCEPT ![w] = "create"]
                           /\ printed' = [printed EXCEPT ![w] =
                                  PyStr("Received query for API: " \o scan.value.s)]
                           /\ response' = response
    /\ UNCHANGED <<request, crew_args, kickoffs, execution_result, status,
                   listing, serverUp>>

\* The scan, the `if not user_message` test and the diagnostic print.
ExtractQuery(w) ==
    /\ serverUp
    /\ pc[w] = "scan"
    /\ LET scan == NextUserMessage(request[w].messages)
       IN  /\ inspected' = [inspected EXCEPT ![w] = scan.inspected]
           /\ IF scan.outcome = "KeyError"
              THEN /\ pc' = [pc EXCEPT ![w] = "raised"]
                   /\ exc' = [exc EXCEPT ![w] = KeyError(scan.key)]
                   /\ UNCHANGED <<user_message, response, printed>>
              ELSE /\ user_message' = [user_message EXCEPT ![w] = scan.value]
                   /\ exc' = exc
                   /\ IF ~Truthy(scan.value)
                      THEN /\ pc' = [pc EXCEPT ![w] = "returned"]
                           /\ response' = [response EXCEPT ![w] = ErrorBody]
                           /\ printed' = printed
                      ELSE /\ pc' = [pc EXCEPT ![w] = "create"]
                           /\ printed' = [printed EXCEPT ![w] =
                                  PyStr("Received query for API: " \o scan.value.s)]
                           /\ response' = response
    /\ UNCHANGED <<request, crew_args, kickoffs, execution_result, status,
                   listing, serverUp>>

\* application_crew = create_rag_crew(user_message), returning a crew.
CreateCrewReturns(w) ==
    /\ serverUp
    /\ pc[w] = "create"
    /\ crew_args' = [crew_args EXCEPT ![w] = Append(@, user_message[w])]
    /\ pc' = [pc EXCEPT ![w] = "kickoff"]
    /\ UNCHANGED <<request, inspected, user_message, printed, kickoffs,
                   execution_result, response, exc, status, listing, serverUp>>

\* create_rag_crew(user_message) raising: nothing in the handler catches it.
CreateCrewRaises(w) ==
    /\ serverUp
    /\ pc[w] = "create"
    /\ crew_args' = [crew_args EXCEPT ![w] = Append(@, user_message[w])]
    /\ exc' = [exc EXCEPT ![w] = FactoryError]
    /\ pc' = [pc EXCEPT ![w] = "raised"]
    /\ UNCHANGED <<request, inspected, user_message, printed, kickoffs,
                   execution_result, response, status, listing, serverUp>>

\* execution_result = application_crew.kickoff(), returning r.
KickoffReturns(w, r) ==
    /\ serverUp
    /\ pc[w] = "kickoff"
    /\ kickoffs' = [kickoffs EXCEPT ![w] = @ + 1]
    /\ execution_result' = [execution_result EXCEPT ![w] = r]
    /\ pc' = [pc EXCEPT ![w] = "format"]
    /\ UNCHANGED <<request, inspected, user_message, printed, crew_args,
                   response, exc, status, listing, serverUp>>

\* kickoff raising inside a try/except that returns a fallback body.
KickoffRaisesCaught(w) ==
    /\ serverUp
    /\ pc[w] = "kickoff"
    /\ kickoffs' = [kickoffs EXCEPT ![w] = @ + 1]
    /\ exc' = [exc EXCEPT ![w] = KickoffError]
    /\ response' = [response EXCEPT ![w] = [error |-> "Pipeline failed"]]
    /\ pc' = [pc EXCEPT ![w] = "returned"]
    /\ UNCHANGED <<request, inspected, user_message, printed, crew_args,
                   execution_result, status, listing, serverUp>>

\* kickoff raising inside a try/except that exits the process.
KickoffRaisesExits(w) ==
    /\ serverUp
    /\ pc[w] = "kickoff"
    /\ kickoffs' = [kickoffs EXCEPT ![w] = @ + 1]
    /\ exc' = [exc EXCEPT ![w] = KickoffError]
    /\ pc' = [pc EXCEPT ![w] = "raised"]
    /\ serverUp' = FALSE
    /\ UNCHANGED <<request, inspected, user_message, printed, crew_args,
                   execution_result, response, status, listing>>

\* application_crew.kickoff() raising: nothing in the handler catches it.
KickoffRaises(w) ==
    /\ serverUp
    /\ pc[w] = "kickoff"
    /\ kickoffs' = [kickoffs EXCEPT ![w] = @ + 1]
    /\ exc' = [exc EXCEPT ![w] = KickoffError]
    /\ pc' = [pc EXCEPT ![w] = "raised"]
    /\ UNCHANGED <<request, inspected, user_message, printed, crew_args,
                   execution_result, response, status, listing, serverUp>>

\* Build the envelope and return it.
FormatResponse(w) ==
    /\ serverUp
    /\ pc[w] = "format"
    /\ response' = [response EXCEPT ![w] =
           Envelope(request[w].model, Str(execution_result[w]))]
    /\ pc' = [pc EXCEPT ![w] = "returned"]
    /\ UNCHANGED <<request, inspected, user_message, printed, crew_args,
                   kickoffs, execution_result, exc, status, listing, serverUp>>

\* The host answers the caller: 200 with the returned body, or its generic
\* failure response (500) for an exception that left the handler.  The
\* handler's frame is gone and the worker is free again; the exception stays
\* on record until the worker's next request.
HostRespond(w) ==
    /\ serverUp
    /\ pc[w] \in {"returned", "raised"}
    /\ status' = [status EXCEPT ![w] = IF pc[w] = "returned" THEN 200 ELSE 500]
    /\ pc' = [pc EXCEPT ![w] = "idle"]
    /\ request' = [request EXCEPT ![w] = PyNone]
    /\ inspected' = [inspected EXCEPT ![w] = {}]
    /\ user_message' = [user_message EXCEPT ![w] = PyNone]
    /\ printed' = [printed EXCEPT ![w] = PyNone]
    /\ crew_args' = [crew_args EXCEPT ![w] = <<>>]
    /\ kickoffs' = [kickoffs EXCEPT ![w] = 0]
    /\ execution_result' = [execution_result EXCEPT ![w] = PyNone]
    /\ response' = [response EXCEPT ![w] = PyNone]
    /\ UNCHANGED <<exc, listing, serverUp>>

\* A step of the handler of w's request, or of the host answering it.
Handle(w) ==
    \/ ExtractQuery(w)
    \/ CreateCrewReturns(w)
    \/ CreateCrewRaises(w)
    \/ \E r \in Results : KickoffReturns(w, r)
    \/ KickoffRaises(w)
    \/ FormatResponse(w)
    \/ HostRespond(w)

Next ==
    \/ \E w \in Pool : Receive(w, Requests)
    \/ \E w \in Pool : ExtractQuery(w)
    \/ \E w \in Pool : CreateCrewReturns(w)
    \/ \E w \in Pool : CreateCrewRaises(w)
    \/ \E w \in Pool : \E r \in Results : KickoffReturns(w, r)
    \/ \E w \in Pool : KickoffRaises(w)
    \/ \E w \in Pool : FormatResponse(w)
    \/ \E w \in Pool : HostRespond(w)
    \/ ListModels
    \/ HostSendListing

ConcNext ==
    \/ \E w \in Pool : Receive(w, ConcRequests)
    \/ \E w \in Pool : ExtractQuery(w)
    \/ \E w \in Pool : CreateCrewReturns(w)
    \/ \E w \in Pool : CreateCrewRaises(w)
    \/ \E w \in Pool : \E r \in Results : KickoffReturns(w, r)
    \/ \E w \in Pool : KickoffRaises(w)
    \/ \E w \in Pool : FormatResponse(w)
    \/ \E w \in Pool : HostRespond(w)
    \/ ListModels
    \/ HostSendListing

Spec == Init /\ [][Next]_vars
ConcSpec == ConcInit /\ [][ConcNext]_vars

\* ================================================================ properties
\* Indices of the entries of msgs whose role is "user", and the highest one.
UserIdx(msgs) ==
    {i \in 1..Len(msgs) : "role" \in DOMAIN msgs[i] /\ msgs[i]["role"] = "user"}
HasUser(msgs) == UserIdx(msgs) # {}
LastUser(msgs) == CHOOSE i \in UserIdx(msgs) : \A j \in UserIdx(msgs) : j <= i
\* Every entry is a role/content pair.
WellFormed(msgs) == \A i \in 1..Len(msgs) : DOMAIN msgs[i] = {"role", "content"}
\* The handler of w's request has returned or raised.
Finished(w) == pc[w] \in {"returned", "raised"}
\* The handler of w's request is past the scan.
Scanned(w) == pc[w] \notin {"idle", "scan"}
IsEnvelope(resp) == "choices" \in DOMAIN resp
KeyErrors == {KeyError("role"), KeyError("content")}

\* C1: for a request whose messages hold a user-role entry, create_rag_crew is
\* called exactly once in that request, with the content of the last user-role
\* entry.  Stated for requests whose entries are all role/content pairs.
C1_FactoryCalledOnceWithLastUser ==
    \A w \in Pool :
        (Finished(w) /\ WellFormed(request[w].messages) /\ HasUser(request[w].messages))
            => crew_args[w] =
                   <<PyStr(request[w].messages[LastUser(request[w].messages)]["content"])>>

\* C2: for a request whose messages hold no user-role entry, the handler
\* returns normally, with the body {"error": "No user message found"}.
C2_NoUserGivesErrorBody ==
    \A w \in Pool :
        (Finished(w) /\ ~HasUser(request[w].messages))
            => (pc[w] = "returned" /\ response[w] = ErrorBody /\ exc[w] = NoExc)

\* C3: when create_rag_crew or kickoff raises, the exception leaves the handler:
\* each of the two was attempted at most once in the request (no retry), and the
\* request has no return value and no result (no envelope, no partial result).
C3_PipelineFailurePropagates ==
    \A w \in Pool :
        /\ Len(crew_args[w]) <= 1
        /\ kickoffs[w] <= 1
        /\ (pc[w] # "idle" /\ exc[w] \in {FactoryError, KickoffError})
               => /\ pc[w] = "raised"
                  /\ response[w] = PyNone
                  /\ execution_result[w] = PyNone
                  /\ crew_args[w] = <<user_message[w]>>
                  /\ kickoffs[w] = (IF exc[w] = KickoffError THEN 1 ELSE 0)

C3_Witness ==
    \E w \in Pool : pc[w] = "raised" /\ exc[w] = KickoffError /\ kickoffs[w] = 1

\* C4: a raising pipeline does not take the server down: in every state, also
\* after requests whose pipeline raised, the process is up, a free worker
\* accepts a chat request, a busy worker's request can move on to its answer,
\* and the listing endpoint is served.
C4_ServerStaysUp ==
    /\ serverUp
    /\ ENABLED ListModels \/ ENABLED HostSendListing
    /\ \A w \in Pool :
           /\ pc[w] = "idle" => ENABLED Receive(w, Requests)
           /\ pc[w] # "idle" => ENABLED Handle(w)
           /\ pc[w] = "raised" => ENABLED HostRespond(w)

C4_Witness ==
    \E w \in Pool :
        /\ pc[w] = "idle" /\ exc[w] = KickoffError /\ status[w] = 500
        /\ ENABLED Receive(w, Requests)
        /\ ENABLED ListModels

\* C5: a successful response carries the request's model string unchanged,
\* whether or not the listing knows it, and exactly one choice: role
\* "assistant", content the text of the result of this request's one kickoff
\* call, finish_reason "stop".
C5_EnvelopeEchoesModelAndResult ==
    \A w \in Pool :
        (pc[w] = "returned" /\ IsEnvelope(response[w]))
            => /\ response[w].model = request[w].model
               /\ Len(response[w].choices) = 1
               /\ response[w].choices[1].message.role = "assistant"
               /\ response[w].choices[1].finish_reason = "stop"
               /\ kickoffs[w] = 1
               /\ execution_result[w] \in Results
               /\ response[w].choices[1].message.content =
                      (CASE execution_result[w].kind = "CrewOutput" -> execution_result[w].raw
                         [] execution_result[w] = PyInt(42) -> "42"
                         [] OTHER -> Str(execution_result[w]))

C5_Witness ==
    \E w \in Pool :
        /\ pc[w] = "returned" /\ IsEnvelope(response[w])
        /\ request[w].model = "gpt-x" /\ response[w].model = "gpt-x"
        /\ execution_result[w] = PyInt(42)
        /\ response[w].choices[1].message.content = "42"

\* C6 (as claimed): every response to a chat-completion request reports
\* usage.total_tokens = usage.prompt_tokens + usage.completion_tokens = 0.
C6_EveryResponseReportsUsage ==
    \A w \in Pool :
        pc[w] = "returned"
            => /\ "usage" \in DOMAIN response[w]
               /\ response[w].usage.total_tokens =
                      response[w].usage.prompt_tokens + response[w].usage.completion_tokens
               /\ response[w].usage.total_tokens = 0

\* C6 (amended): every chat-completion envelope reports
\* usage.total_tokens = usage.prompt_tokens + usage.completion_tokens = 0,
\* whatever the request and the pipeline's result; the error body has no usage.
C6_EnvelopeUsageIsZero ==
    \A w \in Pool :
        pc[w] = "returned"
            => IF IsEnvelope(response[w])
               THEN /\ response[w].usage.total_tokens =
                           response[w].usage.prompt_tokens
                               + response[w].usage.completion_tokens
                    /\ response[w].usage.total_tokens = 0
                    /\ response[w].usage.prompt_tokens = 0
                    /\ response[w].usage.completion_tokens = 0
               ELSE response[w] = ErrorBody /\ "usage" \notin DOMAIN response[w]

C6_Witness ==
    \E w \in Pool :
        /\ pc[w] = "returned" /\ IsEnvelope(response[w])
        /\ execution_result[w] = CrewOutput("answer")
        /\ response[w].usage.total_tokens = 0

\* C7: every list_models call, however interleaved with chat-completion requests,
\* returns the same listing of the one model "app-rag-model", and the call
\* changes nothing else: no worker's state, no pipeline call.
C7_ListingIsPure ==
    /\ [](listing # PyNone
            => /\ Len(listing.data) = 1
               /\ listing.data[1].id = "app-rag-model"
               /\ listing =
                    [object |-> "list",
                     data |-> <<[id |-> "app-rag-model", object |-> "model",
                                 created |-> 1677652288, owned_by |-> "app-rag-model",
                                 permission |-> <<>>, root |-> "app-rag-model",
                                 parent |-> PyNone, max_tokens |-> 131072,
                                 context_length |-> 131072]>>])
    /\ [][(listing = PyNone /\ listing' # PyNone)
            => UNCHANGED <<pc, locals, status, serverUp>>]_vars

C7_Witness ==
    /\ listing # PyNone
    /\ \E w \in Pool : pc[w] = "raised" /\ exc[w] = KickoffError

\* The query the request's own body determines: the content of its last
\* user-role entry.
OwnQuery(msgs) ==
    IF HasUser(msgs) /\ "content" \in DOMAIN msgs[LastUser(msgs)]
    THEN PyStr(msgs[LastUser(msgs)]["content"])
    ELSE PyNone

\* C8: with requests handled concurrently, each request's extracted query, the
\* argument of its create_rag_crew call and its response are determined by its
\* own body and its own pipeline's result.
C8_RequestsAreIsolated ==
    \A w \in Pool :
        /\ pc[w] \in {"create", "kickoff", "format"}
               => user_message[w] = OwnQuery(request[w].messages)
        /\ (Scanned(w) /\ crew_args[w] # <<>>)
               => crew_args[w] = <<OwnQuery(request[w].messages)>>
        /\ pc[w] = "returned"
               => IF Truthy(OwnQuery(request[w].messages))
                  THEN /\ IsEnvelope(response[w])
                       /\ response[w].model = request[w].model
                       /\ response[w].choices[1].message.content = Str(execution_result[w])
                  ELSE response[w] = ErrorBody

C8_Witness ==
    /\ Pool = Workers
    /\ pc["w1"] = "returned" /\ IsEnvelope(response["w1"])
    /\ pc["w2"] = "kickoff"
    /\ user_message["w1"] = PyStr("A") /\ user_message["w2"] = PyStr("C")
    /\ crew_args["w1"] = <<PyStr("A")>> /\ crew_args["w2"] = <<PyStr("C")>>
    /\ request["w1"].model # request["w2"].model

\* C9: when the last user-role entry has empty content, the handler returns the
\* error body and calls neither create_rag_crew nor kickoff.
C9_EmptyLastUserGivesErrorBody ==
    \A w \in Pool :
        (Finished(w) /\ OwnQuery(request[w].messages) = PyStr(""))
            => /\ pc[w] = "returned"
               /\ response[w] = ErrorBody
               /\ crew_args[w] = <<>>
               /\ kickoffs[w] = 0

\* C10: the scan reads no entry below the last user-role entry, and the outcome
\* is fixed by the entries from that one upwards: an entry without "role" above
\* it (or anywhere, when there is no user-role entry) raises KeyError, a
\* selected entry without "content" raises KeyError, and in both cases the
\* handler returns neither the error body nor an envelope; otherwise the query
\* is the selected content, or None when there is no user-role entry.
C10_ScanStopsAtLastUser ==
    \A w \in Pool :
        Scanned(w) =>
            LET msgs == request[w].messages
                L == IF HasUser(msgs) THEN LastUser(msgs) ELSE 0
                noRoleAbove == \E i \in (L + 1)..Len(msgs) : "role" \notin DOMAIN msgs[i]
            IN  /\ inspected[w] \cap 1..(L - 1) = {}
                /\ IF noRoleAbove
                   THEN /\ pc[w] = "raised" /\ exc[w] = KeyError("role")
                        /\ response[w] = PyNone /\ crew_args[w] = <<>>
                   ELSE IF L > 0 /\ "content" \notin DOMAIN msgs[L]
                   THEN /\ pc[w] = "raised" /\ exc[w] = KeyError("content")
                        /\ response[w] = PyNone /\ crew_args[w] = <<>>
                   ELSE IF L > 0
                   THEN /\ exc[w] \notin KeyErrors
                        /\ user_message[w] = PyStr(msgs[L]["content"])
                   ELSE /\ pc[w] = "returned" /\ exc[w] = NoExc
                        /\ user_message[w] = PyNone /\ response[w] = ErrorBody

C10_Witness ==
    \E w \in Pool :
        /\ pc[w] = "returned" /\ IsEnvelope(response[w])
        /\ Len(request[w].messages) = 3
        /\ DOMAIN request[w].messages[1] = {}
        /\ request[w].messages[2] = [role |-> "user"]
        /\ request[w].messages[3] = [role |-> "user", content |-> "C"]
        /\ inspected[w] = {3}
====
